---- MODULE Spec2Model ----
(***************************************************************************)
(* A model of gridio's textgrid crate: the TextGrid / Tier / Item data     *)
(* model and its validator (textgrid.rs), the long and short parsers       *)
(* (parser_long.rs, parser_short.rs), the serializers (writer.rs), the     *)
(* tabular converter (converter.rs) and the batch entry points (lib.rs).   *)
(*                                                                         *)
(* Representation.                                                         *)
(*  - A time (f64 seconds) is an integer number of ticks; one tick is      *)
(*    1e-6 s, so TIME_EPSILON is 1 tick.  Only times that are whole ticks  *)
(*    are modelled; NaN and infinities are not.                            *)
(*  - A string (label, tier name) is a sequence of one-character strings.  *)
(*  - A text file is a sequence of lines; a line is a sequence of tokens:  *)
(*    the format's fixed words ("xmin", "item [", ...) are single tokens,  *)
(*    as are four spaces of indentation; everything that comes from data   *)
(*    (digits, label characters, quotes, backslashes) is one token per     *)
(*    character.                                                           *)
(***************************************************************************)
EXTENDS Integers, Sequences, FiniteSets, TLC

VARIABLES
    pc,        \* position of the modelled call: "start", ..., "done"
    tg,        \* the TextGrid the operation is applied to
    strict,    \* the strict flag of a read
    file_type, \* "long", "short" or "auto"
    text,      \* the lines of the file being read or written
    state,     \* the long parser's State
    ptg,       \* the TextGrid a parser is building
    pos,       \* lines consumed by the long parser / the short parser's cursor
    data,      \* the nested or flat tabular form handed to the converter
    opt,       \* the optional tmin / tmax overrides handed to the converter
    files,     \* the files a batch read is given, in input order
    out,       \* the batch's result slots so far
    result     \* what the operation returned

vars == <<pc, tg, strict, file_type, text, state, ptg, pos, data, opt, files, out, result>>

(***************************************************************************)
(* Bounds of the model.                                                    *)
(***************************************************************************)
MaxTiers == 2
MaxItems == 2

(***************************************************************************)
(* textgrid.rs: the data model.                                            *)
(***************************************************************************)
\* A tolerance of 0.01 s instead of 1e-6 s.
TIME_EPSILON_Centi == 10 * 1000

TIME_EPSILON == 1

Item(tmin, tmax, label) == [tmin |-> tmin, tmax |-> tmax, label |-> label]

Tier(name, size, items, interval_tier, tmin, tmax) ==
    [name |-> name, size |-> size, items |-> items,
     interval_tier |-> interval_tier, tmin |-> tmin, tmax |-> tmax]

TextGrid(tmin, tmax, size, name, tiers) ==
    [tmin |-> tmin, tmax |-> tmax, size |-> size, name |-> name, tiers |-> tiers]

Item_new == Item(0, 0, <<>>)

Tier_new == Tier(<<>>, 0, <<>>, TRUE, 0, 0)

TextGrid_new == TextGrid(0, 0, 0, <<>>, <<>>)

(***************************************************************************)
(* Results.  Ok carries a value; Err carries the message of the io::Error  *)
(* and the place the message names; Panic is an unwinding panic.           *)
(***************************************************************************)
NoWhere == [level |-> "none", idx |-> -1, name |-> <<>>]

Where(level, idx, name) == [level |-> level, idx |-> idx, name |-> name]

Ok(v) == [kind |-> "Ok", msg |-> "", where |-> NoWhere, value |-> v]

data_error(msg, where) == [kind |-> "Err", msg |-> msg, where |-> where, value |-> <<>>]

Panic(msg) == [kind |-> "Panic", msg |-> msg, where |-> NoWhere, value |-> <<>>]

NoResult == [kind |-> "None", msg |-> "", where |-> NoWhere, value |-> <<>>]

(***************************************************************************)
(* textgrid.rs: validation.                                                *)
(***************************************************************************)
assert_valid_time_bounds(tmin, tmax, where) ==
    IF tmin < 0 \/ tmax <= 0
    THEN data_error("Time bounds should be non-negative", where)
    ELSE IF tmax - tmin <= TIME_EPSILON
         THEN data_error("tmin should be less than tmax", where)
         ELSE Ok(<<>>)

\* The body of the loop `for item_idx in 0..self.items.len()`, from the
\* 1-based position idx on; the messages carry the 0-based item_idx.
RECURSIVE Tier_assert_valid_items(_, _)
Tier_assert_valid_items(tier, idx) ==
    IF idx > Len(tier.items) THEN Ok(<<>>)
    ELSE
      LET this_item == tier.items[idx]
          own == IF tier.interval_tier
                 THEN assert_valid_time_bounds(this_item.tmin, this_item.tmax,
                                               Where("item", idx - 1, tier.name))
                 ELSE IF (IF this_item.tmin >= this_item.tmax
                          THEN this_item.tmin - this_item.tmax
                          ELSE this_item.tmax - this_item.tmin) > TIME_EPSILON
                      THEN data_error("Item should have tmin == tmax in PointTier",
                                      Where("item", idx - 1, tier.name))
                      ELSE Ok(<<>>)
      IN IF own.kind # "Ok" THEN own
         ELSE IF idx + 1 <= Len(tier.items)
                 /\ this_item.tmax - tier.items[idx + 1].tmin > TIME_EPSILON
              THEN data_error("Items overlap", Where("item", idx - 1, tier.name))
              ELSE Tier_assert_valid_items(tier, idx + 1)

\* assert_valid without its first check.
Tier_assert_valid_NoSize(tier) ==
    LET b == assert_valid_time_bounds(tier.tmin, tier.tmax, Where("tier", -1, tier.name))
    IN IF b.kind # "Ok" THEN b ELSE Tier_assert_valid_items(tier, 1)

Tier_assert_valid(tier) ==
    IF tier.size # Len(tier.items)
    THEN data_error("Tier size does not match number of items", NoWhere)
    ELSE LET b == assert_valid_time_bounds(tier.tmin, tier.tmax,
                                           Where("tier", -1, tier.name))
         IN IF b.kind # "Ok" THEN b ELSE Tier_assert_valid_items(tier, 1)

RECURSIVE TextGrid_assert_valid_tiers(_, _)
TextGrid_assert_valid_tiers(t, idx) ==
    IF idx > Len(t.tiers) THEN Ok(<<>>)
    ELSE LET r == Tier_assert_valid(t.tiers[idx])
         IN IF r.kind # "Ok" THEN r ELSE TextGrid_assert_valid_tiers(t, idx + 1)

TextGrid_assert_valid(t) ==
    IF t.size # Len(t.tiers)
    THEN data_error("TextGrid size does not match number of tiers", NoWhere)
    ELSE LET b == assert_valid_time_bounds(t.tmin, t.tmax, Where("TextGrid", -1, <<>>))
         IN IF b.kind # "Ok" THEN b ELSE TextGrid_assert_valid_tiers(t, 1)

(***************************************************************************)
(* Text.  Numbers are written as the decimal digits of their tick count    *)
(* (f64's Display and FromStr are exact inverses on finite values; the     *)
(* digits stand for the shortest decimal form Display prints).             *)
(***************************************************************************)
QUOTE == "\""

BACKSLASH == "\\"

SPACE == " "

DigitChars == <<"0", "1", "2", "3", "4", "5", "6", "7", "8", "9">>

\* Four spaces, the unit of the long format's indentation, as one token.
INDENT == "    "

Indent(levels) == [i \in 1..levels |-> INDENT]

RECURSIVE NatToDigits(_)
NatToDigits(n) ==
    IF n < 10 THEN <<DigitChars[n + 1]>>
    ELSE NatToDigits(n \div 10) \o <<DigitChars[(n % 10) + 1]>>

\* format!("{}", x) of an f64 or a usize.
Display(n) == IF n < 0 THEN <<"-">> \o NatToDigits(-n) ELSE NatToDigits(n)

IsDigits(s) == Len(s) > 0 /\ \A i \in 1..Len(s) : \E d \in 1..10 : DigitChars[d] = s[i]

DigitValue(c) == (CHOOSE d \in 1..10 : DigitChars[d] = c) - 1

RECURSIVE DigitsToNat(_)
DigitsToNat(s) ==
    IF Len(s) = 0 THEN 0
    ELSE 10 * DigitsToNat(SubSeq(s, 1, Len(s) - 1)) + DigitValue(s[Len(s)])

\* str::trim_matches(c): every leading and every trailing c is removed.
RECURSIVE trim_matches(_, _)
trim_matches(s, c) ==
    IF Len(s) > 0 /\ s[1] = c THEN trim_matches(Tail(s), c)
    ELSE IF Len(s) > 0 /\ s[Len(s)] = c THEN trim_matches(SubSeq(s, 1, Len(s) - 1), c)
    ELSE s

\* str::trim(): the whitespace within a line is spaces.
RECURSIVE trim(_)
trim(s) ==
    IF Len(s) > 0 /\ s[1] \in {SPACE, INDENT} THEN trim(Tail(s))
    ELSE IF Len(s) > 0 /\ s[Len(s)] \in {SPACE, INDENT} THEN trim(SubSeq(s, 1, Len(s) - 1))
    ELSE s

starts_with(s, prefix) ==
    Len(s) >= Len(prefix) /\ SubSeq(s, 1, Len(prefix)) = prefix

\* str::replace('"', "\\\""): a backslash is put before every double quote.
RECURSIVE escape_quotes(_)
escape_quotes(s) ==
    IF Len(s) = 0 THEN <<>>
    ELSE (IF s[1] = QUOTE THEN <<BACKSLASH, QUOTE>> ELSE <<s[1]>>) \o escape_quotes(Tail(s))

Quoted(s) == <<QUOTE>> \o s \o <<QUOTE>>

\* The concatenation of a sequence of sequences.
RECURSIVE Flatten(_)
Flatten(ss) == IF Len(ss) = 0 THEN <<>> ELSE ss[1] \o Flatten(Tail(ss))

(***************************************************************************)
(* parser_long.rs and parser_short.rs: the field parsers.                  *)
(***************************************************************************)
parse_float(s) ==
    IF IsDigits(s) THEN DigitsToNat(s)
    ELSE IF Len(s) > 1 /\ s[1] = "-" /\ IsDigits(Tail(s)) THEN 0 - DigitsToNat(Tail(s))
    ELSE 0

parse_str(s) == trim_matches(s, QUOTE)

parse_uint(s) == IF IsDigits(s) THEN DigitsToNat(s) ELSE 0

NoKv == [some |-> FALSE, key |-> <<>>, value |-> <<>>]

\* line.splitn(2, '='): the split is at the first '='.
RECURSIVE FirstIndex(_, _, _)
FirstIndex(s, c, i) ==
    IF i > Len(s) THEN 0 ELSE IF s[i] = c THEN i ELSE FirstIndex(s, c, i + 1)

parse_kv(line) ==
    LET k == FirstIndex(line, "=", 1) IN
    IF k = 0 THEN NoKv
    ELSE [some |-> TRUE,
          key |-> trim(SubSeq(line, 1, k - 1)),
          value |-> trim(SubSeq(line, k + 1, Len(line)))]

(***************************************************************************)
(* writer.rs: the serializers.  A file's text is its sequence of lines     *)
(* (each ended by "\r\n"); trailing spaces are kept.                       *)
(***************************************************************************)
HeaderLines ==
    << <<"File", SPACE, "type", SPACE, "=", SPACE, QUOTE, "ooTextFile", QUOTE>>,
       <<"Object", SPACE, "class", SPACE, "=", SPACE, QUOTE, "TextGrid", QUOTE>>,
       <<>> >>

TiersExistence(nitems) == IF nitems > 0 THEN "<exists>" ELSE "<absent>"

ClassWord(is_interval) == IF is_interval THEN "IntervalTier" ELSE "TextTier"

\* indent is in units of four spaces.
KeyValueLine(indent, key, value) ==
    Indent(indent) \o key \o <<SPACE, "=", SPACE>> \o value \o <<SPACE>>

Item_to_long_lines(tier, index) ==
    LET item == tier.items[index] IN
    IF tier.interval_tier
    THEN << Indent(2) \o <<"intervals", SPACE, "[">> \o Display(index) \o <<"]", ":">>,
            KeyValueLine(3, <<"xmin">>, Display(item.tmin)),
            KeyValueLine(3, <<"xmax">>, Display(item.tmax)),
            KeyValueLine(3, <<"text">>, Quoted(escape_quotes(item.label))) >>
    ELSE << Indent(2) \o <<"points", SPACE, "[">> \o Display(index) \o <<"]", ":">>,
            KeyValueLine(3, <<"number">>, Display(item.tmin)),
            KeyValueLine(3, <<"mark">>, Quoted(escape_quotes(item.label))) >>

\* index is the tier's 1-based number (the code's index + 1).
Tier_to_long_textgrid_string(tier, index) ==
    << Indent(1) \o <<"item", SPACE, "[">> \o Display(index) \o <<"]", ":">>,
       KeyValueLine(2, <<"class">>, Quoted(<<ClassWord(tier.interval_tier)>>)),
       KeyValueLine(2, <<"name">>, Quoted(escape_quotes(tier.name))),
       KeyValueLine(2, <<"xmin">>, Display(tier.tmin)),
       KeyValueLine(2, <<"xmax">>, Display(tier.tmax)),
       KeyValueLine(2, <<IF tier.interval_tier THEN "intervals" ELSE "points", ":", SPACE, "size">>,
                    Display(Len(tier.items))) >>
    \o Flatten([i \in 1..Len(tier.items) |-> Item_to_long_lines(tier, i)])

TextGrid_to_long_textgrid_string(t) ==
    HeaderLines
    \o << KeyValueLine(0, <<"xmin">>, Display(t.tmin)),
          KeyValueLine(0, <<"xmax">>, Display(t.tmax)),
          <<"tiers?", SPACE, TiersExistence(Len(t.tiers)), SPACE>>,
          KeyValueLine(0, <<"size">>, Display(Len(t.tiers))),
          <<"item", SPACE, "[", "]", ":", SPACE>> >>
    \o Flatten([i \in 1..Len(t.tiers) |-> Tier_to_long_textgrid_string(t.tiers[i], i)])

Item_to_short_lines(tier, index) ==
    LET item == tier.items[index] IN
    IF tier.interval_tier
    THEN <<Display(item.tmin), Display(item.tmax), Quoted(escape_quotes(item.label))>>
    ELSE <<Display(item.tmin), Quoted(escape_quotes(item.label))>>

Tier_to_short_textgrid_string(tier) ==
    << Quoted(<<ClassWord(tier.interval_tier)>>),
       Quoted(escape_quotes(tier.name)),
       Display(tier.tmin),
       Display(tier.tmax),
       Display(Len(tier.items)) >>
    \o Flatten([i \in 1..Len(tier.items) |-> Item_to_short_lines(tier, i)])

TextGrid_to_short_textgrid_string(t) ==
    HeaderLines
    \o << Display(t.tmin), Display(t.tmax),
          <<TiersExistence(Len(t.tiers))>>,
          Display(Len(t.tiers)) >>
    \o Flatten([i \in 1..Len(t.tiers) |-> Tier_to_short_textgrid_string(t.tiers[i])])

(***************************************************************************)
(* A file: whether read_to_string succeeds, the file stem of its path and  *)
(* its lines.                                                              *)
(***************************************************************************)
File(readable, stem, lines) == [readable |-> readable, stem |-> stem, lines |-> lines]

MsgUnreadable == "read_to_string failed"

MsgUnknownClass == "Unknown tier class"

MsgNone == "called Option::unwrap() on a None value"

MsgIndex == "index out of bounds"

MsgUnknownFileType == "Unknown file type"

SetLast(seq, v) == [seq EXCEPT ![Len(seq)] = v]

Last(seq) == seq[Len(seq)]

(***************************************************************************)
(* parser_long.rs: the line-driven state machine.                          *)
(***************************************************************************)
parse_item_kv(line, item) ==
    LET kv == parse_kv(line) IN
    IF ~ kv.some THEN item
    ELSE IF kv.key = <<"xmin">> THEN [item EXCEPT !.tmin = parse_float(kv.value)]
    ELSE IF kv.key = <<"xmax">> THEN [item EXCEPT !.tmax = parse_float(kv.value)]
    ELSE IF kv.key = <<"text">> THEN [item EXCEPT !.label = parse_str(kv.value)]
    ELSE IF kv.key = <<"number">>
         THEN [item EXCEPT !.tmin = parse_float(kv.value), !.tmax = parse_float(kv.value)]
    ELSE IF kv.key = <<"mark">> THEN [item EXCEPT !.label = parse_str(kv.value)]
    ELSE item

\* Returns the tier, or a panic for a class that is neither of the two.
parse_tier_kv(line, tier) ==
    LET kv == parse_kv(line) IN
    IF ~ kv.some THEN Ok(tier)
    ELSE IF kv.key = <<"class">>
         THEN IF trim_matches(kv.value, QUOTE) = <<"IntervalTier">>
              THEN Ok([tier EXCEPT !.interval_tier = TRUE])
              ELSE IF trim_matches(kv.value, QUOTE) = <<"TextTier">>
                   THEN Ok([tier EXCEPT !.interval_tier = FALSE])
                   ELSE Panic(MsgUnknownClass)
    ELSE IF kv.key = <<"name">> THEN Ok([tier EXCEPT !.name = parse_str(kv.value)])
    ELSE IF kv.key = <<"intervals", ":", SPACE, "size">>
         THEN Ok([tier EXCEPT !.size = parse_uint(kv.value)])
    ELSE IF kv.key = <<"points", ":", SPACE, "size">>
         THEN Ok([tier EXCEPT !.size = parse_uint(kv.value)])
    ELSE IF kv.key = <<"xmin">> THEN Ok([tier EXCEPT !.tmin = parse_float(kv.value)])
    ELSE IF kv.key = <<"xmax">> THEN Ok([tier EXCEPT !.tmax = parse_float(kv.value)])
    ELSE Ok(tier)

parse_tg_kv(line, t) ==
    LET kv == parse_kv(line) IN
    IF ~ kv.some THEN t
    ELSE IF kv.key = <<"xmin">> THEN [t EXCEPT !.tmin = parse_float(kv.value)]
    ELSE IF kv.key = <<"xmax">> THEN [t EXCEPT !.tmax = parse_float(kv.value)]
    ELSE IF kv.key = <<"size">> THEN [t EXCEPT !.size = parse_uint(kv.value)]
    ELSE t

Tier_add_empty_item(tier) == [tier EXCEPT !.items = Append(@, Item_new)]

TextGrid_add_empty_tier(t) == [t EXCEPT !.tiers = Append(@, Tier_new)]

LongOk(st, t) == [kind |-> "Ok", msg |-> "", state |-> st, tg |-> t]

LongPanic(msg, st, t) == [kind |-> "Panic", msg |-> msg, state |-> st, tg |-> t]

\* One iteration of `for line in content.lines().map(|l| l.trim())`; raw is
\* the untrimmed line.
LongStep(st, t, raw) ==
    LET line == trim(raw) IN
    IF starts_with(line, <<"item", SPACE, "[", "]">>) THEN LongOk("TierList", t)
    ELSE IF starts_with(line, <<"item", SPACE, "[">>)
         THEN LongOk("Tier", TextGrid_add_empty_tier(t))
    ELSE IF starts_with(line, <<"intervals", SPACE, "[">>)
            \/ starts_with(line, <<"points", SPACE, "[">>)
         THEN IF Len(t.tiers) = 0 THEN LongPanic(MsgNone, "Item", t)
              ELSE LongOk("Item",
                          [t EXCEPT !.tiers = SetLast(@, Tier_add_empty_item(Last(@)))])
    ELSE IF st = "Header" THEN LongOk(st, parse_tg_kv(line, t))
    ELSE IF st = "Tier"
         THEN IF Len(t.tiers) = 0 THEN LongPanic(MsgNone, st, t)
              ELSE LET r == parse_tier_kv(line, Last(t.tiers)) IN
                   IF r.kind = "Panic" THEN LongPanic(r.msg, st, t)
                   ELSE LongOk(st, [t EXCEPT !.tiers = SetLast(@, r.value)])
    ELSE IF st = "Item"
         THEN IF Len(t.tiers) = 0 \/ Len(Last(t.tiers).items) = 0
              THEN LongPanic(MsgNone, st, t)
              ELSE LongOk(st, [t EXCEPT !.tiers =
                        SetLast(@, [Last(@) EXCEPT !.items =
                            SetLast(@, parse_item_kv(line, Last(@)))])])
    ELSE LongOk(st, t)

RECURSIVE LongLoop(_, _, _, _)
LongLoop(st, t, lines, i) ==
    IF i > Len(lines) THEN LongOk(st, t)
    ELSE LET r == LongStep(st, t, lines[i]) IN
         IF r.kind = "Panic" THEN r ELSE LongLoop(r.state, r.tg, lines, i + 1)

\* The validation run whatever the flag.
finish_read_AlwaysStrict(t, is_strict) ==
    LET v == TextGrid_assert_valid(t) IN IF v.kind # "Ok" THEN v ELSE Ok(t)

\* What a read returns once the lines are parsed.
finish_read(t, is_strict) ==
    IF is_strict
    THEN LET v == TextGrid_assert_valid(t) IN IF v.kind # "Ok" THEN v ELSE Ok(t)
    ELSE Ok(t)

read_from_file_long(file, is_strict) ==
    IF ~ file.readable THEN Panic(MsgUnreadable)
    ELSE LET r == LongLoop("Header", [TextGrid_new EXCEPT !.name = file.stem],
                           file.lines, 1)
         IN IF r.kind = "Panic" THEN Panic(r.msg) ELSE finish_read(r.tg, is_strict)

(***************************************************************************)
(* parser_short.rs: the positional parser.  Indices are the code's         *)
(* 0-based line indices.                                                   *)
(***************************************************************************)
InBounds(lines, k) == k < Len(lines)

At(lines, k) == trim(lines[k + 1])

ShortOk(tier, cursor) == [kind |-> "Ok", msg |-> "", tier |-> tier, cursor |-> cursor]

ShortPanic(msg, tier, cursor) == [kind |-> "Panic", msg |-> msg, tier |-> tier, cursor |-> cursor]

\* The loop `for _ in 0..tier.size` ending at the last line instead of
\* indexing past it.
RECURSIVE parse_tier_items_Shortened(_, _, _, _)
parse_tier_items_Shortened(lines, tier, cursor, remaining) ==
    IF remaining = 0 THEN ShortOk(tier, cursor)
    ELSE IF ~ InBounds(lines, cursor + (IF tier.interval_tier THEN 2 ELSE 1))
         THEN ShortOk(tier, cursor)
         ELSE parse_tier_items_Shortened(lines,
                  [tier EXCEPT !.items = Append(@,
                      Item(parse_float(At(lines, cursor)),
                           parse_float(At(lines, IF tier.interval_tier THEN cursor + 1 ELSE cursor)),
                           parse_str(At(lines, cursor + (IF tier.interval_tier THEN 2 ELSE 1)))))],
                  cursor + (IF tier.interval_tier THEN 3 ELSE 2), remaining - 1)

\* The loop `for _ in 0..tier.size`, with `remaining` iterations left.
RECURSIVE parse_tier_items(_, _, _, _)
parse_tier_items(lines, tier, cursor, remaining) ==
    IF remaining = 0 THEN ShortOk(tier, cursor)
    ELSE IF tier.interval_tier
         THEN IF ~ InBounds(lines, cursor + 2) THEN ShortPanic(MsgIndex, tier, cursor)
              ELSE parse_tier_items(lines,
                       [tier EXCEPT !.items = Append(@,
                           Item(parse_float(At(lines, cursor)),
                                parse_float(At(lines, cursor + 1)),
                                parse_str(At(lines, cursor + 2))))],
                       cursor + 3, remaining - 1)
         ELSE IF ~ InBounds(lines, cursor + 1) THEN ShortPanic(MsgIndex, tier, cursor)
              ELSE parse_tier_items(lines,
                       [tier EXCEPT !.items = Append(@,
                           Item(parse_float(At(lines, cursor)),
                                parse_float(At(lines, cursor)),
                                parse_str(At(lines, cursor + 1))))],
                       cursor + 2, remaining - 1)

parse_tier(lines, start_index) ==
    IF ~ InBounds(lines, start_index) THEN ShortPanic(MsgIndex, Tier_new, start_index)
    ELSE LET class == trim_matches(At(lines, start_index), QUOTE) IN
         IF class # <<"IntervalTier">> /\ class # <<"TextTier">>
         THEN ShortPanic(MsgUnknownClass, Tier_new, start_index)
         ELSE IF ~ InBounds(lines, start_index + 4)
              THEN ShortPanic(MsgIndex, Tier_new, start_index)
              ELSE LET tier == Tier(parse_str(At(lines, start_index + 1)),
                                    parse_uint(At(lines, start_index + 4)),
                                    <<>>,
                                    class = <<"IntervalTier">>,
                                    parse_float(At(lines, start_index + 2)),
                                    parse_float(At(lines, start_index + 3)))
                   IN parse_tier_items(lines, tier, start_index + 5, tier.size)

\* The loop `for _ in 0..tg.size`, with `remaining` iterations left.
RECURSIVE ShortLoop(_, _, _, _)
ShortLoop(lines, t, cursor, remaining) ==
    IF remaining = 0 THEN [kind |-> "Ok", msg |-> "", tg |-> t, cursor |-> cursor]
    ELSE LET r == parse_tier(lines, cursor) IN
         IF r.kind = "Panic" THEN [kind |-> "Panic", msg |-> r.msg, tg |-> t, cursor |-> cursor]
         ELSE ShortLoop(lines, [t EXCEPT !.tiers = Append(@, r.tier)], r.cursor, remaining - 1)

\* The header: lines[3], lines[4] and lines[6].
short_header(file) ==
    [TextGrid_new EXCEPT !.name = file.stem,
                         !.tmin = parse_float(At(file.lines, 3)),
                         !.tmax = parse_float(At(file.lines, 4)),
                         !.size = parse_uint(At(file.lines, 6))]

read_from_file_short(file, is_strict) ==
    IF ~ file.readable THEN Panic(MsgUnreadable)
    ELSE IF ~ InBounds(file.lines, 6) THEN Panic(MsgIndex)
    ELSE LET h == short_header(file)
             r == ShortLoop(file.lines, h, 7, h.size)
         IN IF r.kind = "Panic" THEN Panic(r.msg) ELSE finish_read(r.tg, is_strict)

(***************************************************************************)
(* lib.rs: read_from_file.                                                 *)
(***************************************************************************)
\* content.contains("item []")
Contains(line, word) ==
    \E i \in 1..Len(line) : starts_with(SubSeq(line, i, Len(line)), word)

read_from_file(file, is_strict, ftype) ==
    IF ftype = "long" THEN read_from_file_long(file, is_strict)
    ELSE IF ftype = "short" THEN read_from_file_short(file, is_strict)
    ELSE IF ftype = "auto"
         THEN IF ~ file.readable THEN data_error(MsgUnreadable, NoWhere)
              ELSE IF \E i \in 1..Len(file.lines) :
                          Contains(file.lines[i], <<"item", SPACE, "[", "]">>)
                   THEN read_from_file_long(file, is_strict)
                   ELSE read_from_file_short(file, is_strict)
    ELSE Panic(MsgUnknownFileType)

(***************************************************************************)
(* Validation runs: assert_valid applied to a TextGrid whose fields the    *)
(* caller has overwritten (every field of the three structs is pub): a     *)
(* valid TextGrid with at most MaxEdits fields changed, or one of the      *)
(* three "words" TextGrids.                                                *)
(***************************************************************************)
MaxEdits == 2

\* Item i of the base tiers: the interval [2(i-1), 2i], the point 2i-1.
BaseItems(is_interval) ==
    [i \in 1..MaxItems |->
        IF is_interval THEN Item(2 * (i - 1), 2 * i, <<>>)
                       ELSE Item(2 * i - 1, 2 * i - 1, <<>>)]

TierNames == <<"a", "b", "c">>

\* Tier i of a base TextGrid, with its first ni base items.
BaseTier(i, is_interval, ni) ==
    Tier(<<TierNames[((i - 1) % 3) + 1]>>, ni, SubSeq(BaseItems(is_interval), 1, ni),
         is_interval, 0, 2 * MaxItems)

\* The valid TextGrid of nt tiers of ni items each, interval and point
\* tiers alternating, the first an interval tier iff first_interval.
ShapedTextGrid(nt, ni, first_interval) ==
    TextGrid(0, 2 * MaxItems, nt, <<>>,
             [i \in 1..nt |-> BaseTier(i, (i % 2 = 1) = first_interval, ni)])

BaseTextGrids == { ShapedTextGrid(MaxTiers, MaxItems, b) : b \in BOOLEAN }

\* A time moved by a tick or two; a usize count moved by one.
Shifted(v) == {v - 2, v - 1, v + 1}

Recount(n) == {m \in {n - 1, n + 1} : m >= 0}

\* Every TextGrid that differs from t in exactly one field.
Edits(t) ==
    { [t EXCEPT !.tmin = v] : v \in Shifted(t.tmin) }
    \cup { [t EXCEPT !.tmax = v] : v \in Shifted(t.tmax) }
    \cup { [t EXCEPT !.size = n] : n \in Recount(t.size) }
    \cup UNION { { [t EXCEPT !.tiers[i].tmin = v] : v \in Shifted(t.tiers[i].tmin) }
                 \cup { [t EXCEPT !.tiers[i].tmax = v] : v \in Shifted(t.tiers[i].tmax) }
                 \cup { [t EXCEPT !.tiers[i].size = n] : n \in Recount(t.tiers[i].size) }
                 \cup { [t EXCEPT !.tiers[i].interval_tier = ~ @] }
                 \cup UNION { { [t EXCEPT !.tiers[i].items[j].tmin = v] :
                                    v \in Shifted(t.tiers[i].items[j].tmin) }
                              \cup { [t EXCEPT !.tiers[i].items[j].tmax = v] :
                                    v \in Shifted(t.tiers[i].items[j].tmax) }
                              : j \in 1 .. Len(t.tiers[i].items) }
                 : i \in 1 .. Len(t.tiers) }

\* The "words" TextGrids: tmin = 0.0, tmax = 2.0, one interval tier "words"
\* with (0.0, 1.0, "hello") and a second item (second_tmin, 2.0, "world").
Second == 1000000

WordsTextGrid(second_tmin) ==
    TextGrid(0, 2 * Second, 1, <<>>,
        << Tier(<<"w", "o", "r", "d", "s">>, 2,
                << Item(0, Second, <<"h", "e", "l", "l", "o">>),
                   Item(second_tmin, 2 * Second, <<"w", "o", "r", "l", "d">>) >>,
                TRUE, 0, 2 * Second) >>)

WordsExact == WordsTextGrid(Second)

WordsShifted099 == WordsTextGrid(990000)

WordsShifted09 == WordsTextGrid(900000)

ValidateInputs == BaseTextGrids \cup {WordsExact, WordsShifted099, WordsShifted09}

\* What a run leaves alone.
Idle ==
    /\ strict = FALSE /\ file_type = "none" /\ text = <<>> /\ state = "Header"
    /\ ptg = TextGrid_new /\ pos = 0 /\ data = <<>> /\ opt = <<>>
    /\ files = <<>> /\ out = <<>>

InitValidate ==
    /\ pc = "validate"
    /\ tg \in ValidateInputs
    /\ result = NoResult
    /\ Idle

\* The caller overwrites one field; pos counts the fields overwritten.
SetField ==
    /\ pc = "validate"
    /\ pos < MaxEdits
    /\ tg \in BaseTextGrids \/ pos > 0
    /\ tg' \in Edits(tg)
    /\ pos' = pos + 1
    /\ UNCHANGED <<pc, strict, file_type, text, state, ptg, data, opt, files, out, result>>

Validate ==
    /\ pc = "validate"
    /\ result' = TextGrid_assert_valid(tg)
    /\ pc' = "validated"
    /\ UNCHANGED <<tg, strict, file_type, text, state, ptg, pos, data, opt, files, out>>

NextValidate == SetField \/ Validate

SpecValidate == InitValidate /\ [][NextValidate]_vars

(***************************************************************************)
(* Write-then-read runs: save_textgrid writes a TextGrid (a valid one, or  *)
(* a valid one with one field overwritten: save_textgrid does not          *)
(* validate) in the long or the short format; the file may then lose a     *)
(* line or have a tier class replaced; read_from_file reads it back.  A    *)
(* run has one fault at most: the overwritten field or the edited file.    *)
(***************************************************************************)
MaxStrLen == 2

Chars == {"a", QUOTE}

RECURSIVE StringsOfLen(_)
StringsOfLen(n) ==
    IF n = 0 THEN {<<>>}
    ELSE { Append(str, c) : str \in StringsOfLen(n - 1), c \in Chars }

Strings == UNION { StringsOfLen(n) : n \in 0..MaxStrLen }

\* Every TextGrid that differs from t in one tier name or one item label.
TextEdits(t) ==
    UNION { { [t EXCEPT !.tiers[i].name = str] : str \in Strings }
            \cup UNION { { [t EXCEPT !.tiers[i].items[j].label = str] : str \in Strings }
                         : j \in 1 .. Len(t.tiers[i].items) }
            : i \in 1 .. Len(t.tiers) }

ShapedTextGrids ==
    { ShapedTextGrid(nt, ni, b) : nt \in 0..MaxTiers, ni \in 0..MaxItems, b \in BOOLEAN }

FileStem == <<"f">>

DeleteLine(lines, i) == SubSeq(lines, 1, i - 1) \o SubSeq(lines, i + 1, Len(lines))

\* Line i with its tier class word, if it has one, replaced by another word.
ReplaceClass(lines, i) ==
    [lines EXCEPT ![i] =
        [k \in 1..Len(@) |-> IF @[k] \in {"IntervalTier", "TextTier"} THEN "PitchTier" ELSE @[k]]]

Tampered(lines) ==
    { DeleteLine(lines, i) : i \in 1..Len(lines) }
    \cup { ReplaceClass(lines, i) : i \in 1..Len(lines) }

InitParse ==
    /\ pc = "write"
    /\ tg \in ShapedTextGrids
    /\ result = NoResult
    /\ Idle

\* The caller overwrites one field before saving.
SetFieldBeforeSave ==
    /\ pc = "write"
    /\ pos = 0
    /\ tg' \in Edits(tg) \cup TextEdits(tg)
    /\ pos' = 1
    /\ UNCHANGED <<pc, strict, file_type, text, state, ptg, data, opt, files, out, result>>

\* save_textgrid(filename, long)
save_textgrid ==
    /\ pc = "write"
    /\ \E long \in BOOLEAN :
          /\ file_type' = IF long THEN "long" ELSE "short"
          /\ text' = IF long THEN TextGrid_to_long_textgrid_string(tg)
                             ELSE TextGrid_to_short_textgrid_string(tg)
    /\ pc' = "saved"
    /\ UNCHANGED <<tg, strict, state, ptg, pos, data, opt, files, out, result>>

\* Another program edits the file saved from an unedited TextGrid.
TamperFile ==
    /\ pc = "saved"
    /\ pos = 0
    /\ text' \in Tampered(text)
    /\ text' # text
    /\ pc' = "tampered"
    /\ UNCHANGED <<tg, strict, file_type, state, ptg, pos, data, opt, files, out, result>>

\* read_from_file(fname, strict, file_type), file_type being the format written.
ReadFile ==
    /\ pc \in {"saved", "tampered"}
    /\ strict' \in BOOLEAN
    /\ result' = read_from_file(File(TRUE, FileStem, text), strict', file_type)
    /\ pc' = IF pc = "saved" THEN "read" ELSE "read tampered"
    /\ UNCHANGED <<tg, file_type, text, state, ptg, pos, data, opt, files, out>>

NextParse == SetFieldBeforeSave \/ save_textgrid \/ TamperFile \/ ReadFile

SpecParse == InitParse /\ [][NextParse]_vars

(***************************************************************************)
(* converter.rs: the nested form (tmin, tmax, tiers of (name, kind,        *)
(* items of (tmin, tmax, label))) and the flat form of five parallel       *)
(* vectors, and the TextGrids rebuilt from them.                           *)
(***************************************************************************)
None == [some |-> FALSE, val |-> 0]

Some(v) == [some |-> TRUE, val |-> v]

\* values.fold(f64::MIN, max) or values.fold(f64::MAX, min): the first value
\* always replaces the initial one, which no time exceeds.
RECURSIVE fold(_, _, _, _)
fold(values, i, acc, find_max) ==
    IF i > Len(values) THEN acc
    ELSE LET b == values[i]
             next == IF ~ acc.some THEN b
                     ELSE IF find_max THEN (IF b > acc.val THEN b ELSE acc.val)
                     ELSE (IF b < acc.val THEN b ELSE acc.val)
         IN fold(values, i + 1, Some(next), find_max)

\* get_extreme(items, key, find_max), values being items mapped by key
get_extreme(values, find_max) ==
    IF Len(values) = 0 THEN None
    ELSE fold(values, 1, None, find_max)

get_optional_extreme(default, values, find_max) ==
    IF default.some THEN default.val
    ELSE LET ext == get_extreme(values, find_max) IN
           IF ext.some THEN ext.val ELSE 0

tmins_of(xs) == [i \in 1..Len(xs) |-> xs[i].tmin]

tmaxs_of(xs) == [i \in 1..Len(xs) |-> xs[i].tmax]

make_tier(items, tier_name, is_interval, tmin, tmax) ==
    Tier(tier_name, Len(items), items, is_interval,
         get_optional_extreme(tmin, tmins_of(items), FALSE),
         get_optional_extreme(tmax, tmaxs_of(items), TRUE))

ConvertedTextGrid ==
    <<"C", "o", "n", "v", "e", "r", "t", "e", "d", "T", "e", "x", "t", "G", "r", "i", "d">>

make_textgrid(tiers, name, tmin, tmax) ==
    LET tgt == TextGrid(get_optional_extreme(tmin, tmins_of(tiers), FALSE),
                        get_optional_extreme(tmax, tmaxs_of(tiers), TRUE),
                        Len(tiers),
                        IF name.some THEN name.val ELSE ConvertedTextGrid,
                        tiers)
        valid == TextGrid_assert_valid(tgt)
    IN IF valid.kind = "Ok" THEN Ok(tgt) ELSE valid

\* self.to_data()
TextGrid_to_data(t) ==
    << t.tmin, t.tmax,
       [i \in 1..Len(t.tiers) |->
           << t.tiers[i].name, t.tiers[i].interval_tier,
              [j \in 1..Len(t.tiers[i].items) |->
                  << t.tiers[i].items[j].tmin, t.tiers[i].items[j].tmax,
                     t.tiers[i].items[j].label >>] >>] >>

items_of_data(items_data) ==
    [j \in 1..Len(items_data) |-> Item(items_data[j][1], items_data[j][2], items_data[j][3])]

\* The loop of from_data without its `continue`: tiers without items are kept.
RECURSIVE from_data_tiers_KeepEmpty(_, _, _, _, _)
from_data_tiers_KeepEmpty(tier_data, i, tiers, tmin, tmax) ==
    IF i > Len(tier_data) THEN tiers
    ELSE LET items == items_of_data(tier_data[i][3]) IN
           from_data_tiers_KeepEmpty(tier_data, i + 1,
               Append(tiers, make_tier(items, tier_data[i][1], tier_data[i][2], tmin, tmax)),
               tmin, tmax)

\* The loop of from_data from entry i on, tiers being those pushed so far.
RECURSIVE from_data_tiers(_, _, _, _, _)
from_data_tiers(tier_data, i, tiers, tmin, tmax) ==
    IF i > Len(tier_data) THEN tiers
    ELSE LET items == items_of_data(tier_data[i][3]) IN
           IF Len(items) = 0
           THEN from_data_tiers(tier_data, i + 1, tiers, tmin, tmax)
           ELSE from_data_tiers(tier_data, i + 1,
                    Append(tiers, make_tier(items, tier_data[i][1], tier_data[i][2], tmin, tmax)),
                    tmin, tmax)

\* TextGrid::from_data(data, name, tmin, tmax)
TextGrid_from_data(tier_data, name, tmin, tmax) ==
    make_textgrid(from_data_tiers(tier_data, 1, <<>>, tmin, tmax), name, tmin, tmax)

\* The five vectors: tmins, tmaxs, labels, tier_names, is_intervals.
Vectors(tmins, tmaxs, labels, tier_names, is_intervals) ==
    [tmins |-> tmins, tmaxs |-> tmaxs, labels |-> labels,
     tier_names |-> tier_names, is_intervals |-> is_intervals]

NoVectors == Vectors(<<>>, <<>>, <<>>, <<>>, <<>>)

push_item(v, tier, item) ==
    Vectors(Append(v.tmins, item.tmin), Append(v.tmaxs, item.tmax),
            Append(v.labels, item.label), Append(v.tier_names, tier.name),
            Append(v.is_intervals, tier.interval_tier))

\* The loops of to_vectors from item j of tier i on.
RECURSIVE to_vectors_loop(_, _, _, _)
to_vectors_loop(t, i, j, v) ==
    IF i > Len(t.tiers) THEN v
    ELSE IF j > Len(t.tiers[i].items) THEN to_vectors_loop(t, i + 1, 1, v)
    ELSE to_vectors_loop(t, i, j + 1, push_item(v, t.tiers[i], t.tiers[i].items[j]))

\* self.to_vectors()
TextGrid_to_vectors(t) == to_vectors_loop(t, 1, 1, NoVectors)

MsgSameLength == "Input vectors must have the same length"

\* Error::new(ErrorKind::InvalidInput, msg)
input_error(msg) == [kind |-> "Err", msg |-> msg, where |-> NoWhere, value |-> <<>>]

\* tier_map and tier_name_order after entries i.. of the vectors
RECURSIVE group_items(_, _, _, _)
group_items(v, i, tier_map, tier_name_order) ==
    IF i > Len(v.tmins) THEN [tier_map |-> tier_map, tier_name_order |-> tier_name_order]
    ELSE LET item == Item(v.tmins[i], v.tmaxs[i], v.labels[i])
             tier_name == v.tier_names[i]
             seen == tier_name \in DOMAIN tier_map
             order == IF seen THEN tier_name_order ELSE Append(tier_name_order, tier_name)
             entry == IF seen THEN tier_map[tier_name]
                      ELSE [items |-> <<>>, is_interval |-> v.is_intervals[i]]
             pushed == [entry EXCEPT !.items = Append(@, item)]
         IN group_items(v, i + 1,
                [n \in DOMAIN tier_map \cup {tier_name} |->
                     IF n = tier_name THEN pushed ELSE tier_map[n]],
                order)

\* sorted with x put after the last item whose tmin is not greater
RECURSIVE insert_by_tmin(_, _)
insert_by_tmin(sorted, x) ==
    IF Len(sorted) = 0 THEN <<x>>
    ELSE IF sorted[Len(sorted)].tmin <= x.tmin THEN Append(sorted, x)
    ELSE Append(insert_by_tmin(SubSeq(sorted, 1, Len(sorted) - 1), x), sorted[Len(sorted)])

\* items.sort_by(|a, b| a.tmin.partial_cmp(&b.tmin)): a stable sort
RECURSIVE sort_by_tmin_from(_, _, _)
sort_by_tmin_from(items, i, sorted) ==
    IF i > Len(items) THEN sorted
    ELSE sort_by_tmin_from(items, i + 1, insert_by_tmin(sorted, items[i]))

sort_by_tmin_Unsorted(items) == items

sort_by_tmin(items) == sort_by_tmin_from(items, 1, <<>>)

\* The second loop of from_vectors.
from_vectors_tiers(grouped, tmin, tmax) ==
    [k \in 1..Len(grouped.tier_name_order) |->
        LET tier_name == grouped.tier_name_order[k]
            entry == grouped.tier_map[tier_name]
        IN make_tier(sort_by_tmin(entry.items), tier_name, entry.is_interval, tmin, tmax)]

\* from_vectors with only the lengths of tmins and tmaxs compared: a shorter
\* vector is then indexed past its end.
TextGrid_from_vectors_TwoCompared(v, tmin, tmax, name) ==
    IF Len(v.tmins) # Len(v.tmaxs)
    THEN input_error(MsgSameLength)
    ELSE IF \/ Len(v.labels) < Len(v.tmins)
            \/ Len(v.tier_names) < Len(v.tmins)
            \/ Len(v.is_intervals) < Len(v.tmins)
         THEN Panic(MsgIndex)
         ELSE LET grouped == group_items(v, 1, << >>, <<>>) IN
                make_textgrid(from_vectors_tiers(grouped, tmin, tmax), name, tmin, tmax)

\* TextGrid::from_vectors(tmins, tmaxs, labels, tier_names, is_intervals, tmin, tmax, name)
TextGrid_from_vectors(v, tmin, tmax, name) ==
    IF \/ Len(v.tmins) # Len(v.tmaxs)
       \/ Len(v.tmins) # Len(v.labels)
       \/ Len(v.tmins) # Len(v.tier_names)
       \/ Len(v.tmins) # Len(v.is_intervals)
    THEN input_error(MsgSameLength)
    ELSE LET grouped == group_items(v, 1, << >>, <<>>) IN
           make_textgrid(from_vectors_tiers(grouped, tmin, tmax), name, tmin, tmax)

(***************************************************************************)
(* Nested runs: a TextGrid, a valid one with at most MaxEdits fields       *)
(* overwritten or tiers emptied, is turned into the nested form by         *)
(* to_data, and from_data rebuilds a TextGrid from the tiers of that form, *)
(* the caller passing the form's tmin and tmax as overrides or not.        *)
(***************************************************************************)
\* Every TextGrid that differs from t in one tier having lost its items.
Emptied(t) ==
    { [t EXCEPT !.tiers[i].items = <<>>, !.tiers[i].size = 0] : i \in 1 .. Len(t.tiers) }

InitNested ==
    /\ pc = "build"
    /\ tg \in BaseTextGrids
    /\ result = NoResult
    /\ Idle

\* The edits of t that leave the size fields, which to_data does not read.
ReadEdits(t) ==
    { u \in Edits(t) : /\ u.size = t.size
                       /\ \A i \in 1 .. Len(t.tiers) : u.tiers[i].size = t.tiers[i].size }

\* The caller overwrites one field that to_data reads, or empties one tier.
SetFieldBeforeConvert ==
    /\ pc = "build"
    /\ pos < MaxEdits
    /\ tg' \in ReadEdits(tg) \cup Emptied(tg)
    /\ pos' = pos + 1
    /\ UNCHANGED <<pc, strict, file_type, text, state, ptg, data, opt, files, out, result>>

\* tg.to_data()
to_data ==
    /\ pc = "build"
    /\ data' = TextGrid_to_data(tg)
    /\ pc' = "to_data"
    /\ UNCHANGED <<tg, strict, file_type, text, state, ptg, pos, opt, files, out, result>>

\* TextGrid::from_data(data, None, tmin, tmax), tmin and tmax being None or
\* the bounds that to_data returned
from_data ==
    /\ pc = "to_data"
    /\ \E with_bounds \in BOOLEAN :
          opt' = [name |-> None,
                  tmin |-> IF with_bounds THEN Some(data[1]) ELSE None,
                  tmax |-> IF with_bounds THEN Some(data[2]) ELSE None]
    /\ result' = TextGrid_from_data(data[3], opt'.name, opt'.tmin, opt'.tmax)
    /\ pc' = "from_data"
    /\ UNCHANGED <<tg, strict, file_type, text, state, ptg, pos, data, files, out>>

NextNested == SetFieldBeforeConvert \/ to_data \/ from_data

SpecNested == InitNested /\ [][NextNested]_vars

(***************************************************************************)
(* Flat runs: the five vectors are those to_vectors returns for a valid    *)
(* TextGrid, one tier of which the caller may have renamed, or they are    *)
(* built by the caller entry by entry, up to MaxEntries entries in any     *)
(* order; from_vectors rebuilds a TextGrid from them, the caller passing   *)
(* no bounds or the bounds of the TextGrid.                                *)
(***************************************************************************)
MaxEntries == 3

EntryTimes == 0 .. 2

EntryNames == {<<"a">>, <<"b">>}

\* Every TextGrid that differs from t in the name of one tier.
Renamed(t) ==
    { [t EXCEPT !.tiers[i].name = n] : i \in 1 .. Len(t.tiers), n \in EntryNames }

InitFlat ==
    /\ pc \in {"build", "entries"}
    /\ tg \in IF pc = "build" THEN ShapedTextGrids ELSE {ShapedTextGrid(0, 0, TRUE)}
    /\ result = NoResult
    /\ strict = FALSE /\ file_type = "none" /\ text = <<>> /\ state = "Header"
    /\ ptg = TextGrid_new /\ pos = 0 /\ data = NoVectors /\ opt = <<>>
    /\ files = <<>> /\ out = <<>>

\* The caller renames one tier.
RenameTier ==
    /\ pc = "build"
    /\ pos = 0
    /\ tg' \in Renamed(tg)
    /\ pos' = 1
    /\ UNCHANGED <<pc, strict, file_type, text, state, ptg, data, opt, files, out, result>>

\* tg.to_vectors()
to_vectors ==
    /\ pc = "build"
    /\ data' = TextGrid_to_vectors(tg)
    /\ pc' = "vectors"
    /\ UNCHANGED <<tg, strict, file_type, text, state, ptg, pos, opt, files, out, result>>

\* The caller pushes one entry on each of the five vectors, labelled by its
\* position.
PushEntry ==
    /\ pc = "entries"
    /\ Len(data.tmins) < MaxEntries
    /\ \E tmin \in EntryTimes, long \in BOOLEAN, n \in EntryNames, is_interval \in BOOLEAN :
          data' = Vectors(Append(data.tmins, tmin),
                          Append(data.tmaxs, IF long THEN tmin + 2 ELSE tmin),
                          Append(data.labels, NatToDigits(Len(data.tmins) + 1)),
                          Append(data.tier_names, n),
                          Append(data.is_intervals, is_interval))
    /\ UNCHANGED <<pc, tg, strict, file_type, text, state, ptg, pos, opt, files, out, result>>

\* TextGrid::from_vectors(tmins, tmaxs, labels, tier_names, is_intervals, tmin, tmax, None)
from_vectors ==
    /\ pc \in {"vectors", "entries"}
    /\ \E with_bounds \in BOOLEAN :
          opt' = [name |-> None,
                  tmin |-> IF with_bounds THEN Some(tg.tmin) ELSE None,
                  tmax |-> IF with_bounds THEN Some(tg.tmax) ELSE None]
    /\ result' = TextGrid_from_vectors(data, opt'.tmin, opt'.tmax, opt'.name)
    /\ pc' = IF pc = "vectors" THEN "from_vectors" ELSE "from_entries"
    /\ UNCHANGED <<tg, strict, file_type, text, state, ptg, pos, data, files, out>>

NextFlat == RenameTier \/ to_vectors \/ PushEntry \/ from_vectors

SpecFlat == InitFlat /\ [][NextFlat]_vars

(***************************************************************************)
(* Flat runs with vectors of any lengths: the caller fills each of the     *)
(* five vectors on its own, up to MaxEntries values each, and calls        *)
(* from_vectors.  The i-th tmin is 2(i-1), the i-th tmax 2i and the i-th   *)
(* label i, so that vectors of one length hold consecutive intervals.      *)
(***************************************************************************)
InitLengths ==
    /\ pc = "entries"
    /\ tg = ShapedTextGrid(0, 0, TRUE)
    /\ result = NoResult
    /\ strict = FALSE /\ file_type = "none" /\ text = <<>> /\ state = "Header"
    /\ ptg = TextGrid_new /\ pos = 0 /\ data = NoVectors /\ opt = <<>>
    /\ files = <<>> /\ out = <<>>

PushTmin ==
    /\ pc = "entries"
    /\ Len(data.tmins) < MaxEntries
    /\ data' = [data EXCEPT !.tmins = Append(@, 2 * Len(@))]
    /\ UNCHANGED <<pc, tg, strict, file_type, text, state, ptg, pos, opt, files, out, result>>

PushTmax ==
    /\ pc = "entries"
    /\ Len(data.tmaxs) < MaxEntries
    /\ data' = [data EXCEPT !.tmaxs = Append(@, 2 * (Len(@) + 1))]
    /\ UNCHANGED <<pc, tg, strict, file_type, text, state, ptg, pos, opt, files, out, result>>

PushLabel ==
    /\ pc = "entries"
    /\ Len(data.labels) < MaxEntries
    /\ data' = [data EXCEPT !.labels = Append(@, NatToDigits(Len(@) + 1))]
    /\ UNCHANGED <<pc, tg, strict, file_type, text, state, ptg, pos, opt, files, out, result>>

PushTierName ==
    /\ pc = "entries"
    /\ Len(data.tier_names) < MaxEntries
    /\ \E n \in EntryNames : data' = [data EXCEPT !.tier_names = Append(@, n)]
    /\ UNCHANGED <<pc, tg, strict, file_type, text, state, ptg, pos, opt, files, out, result>>

PushIsInterval ==
    /\ pc = "entries"
    /\ Len(data.is_intervals) < MaxEntries
    /\ data' = [data EXCEPT !.is_intervals = Append(@, TRUE)]
    /\ UNCHANGED <<pc, tg, strict, file_type, text, state, ptg, pos, opt, files, out, result>>

NextLengths ==
    PushTmin \/ PushTmax \/ PushLabel \/ PushTierName \/ PushIsInterval \/ from_vectors

SpecLengths == InitLengths /\ [][NextLengths]_vars

(***************************************************************************)
(* lib.rs: files_to_data and files_to_vectors map read_from_file and the   *)
(* conversion over a list of files, one file after the other (fast_map on  *)
(* a list shorter than ten per core).  The files of a run are saved        *)
(* TextGrids, some of them damaged afterwards, and a path that cannot be   *)
(* read.                                                                   *)
(***************************************************************************)
MaxFiles == 2

\* The valid TextGrid behind the sample files, and the one with its second
\* interval moved back over the first.
SampleTextGrid == ShapedTextGrid(2, 2, TRUE)

OverlappingTextGrid == [SampleTextGrid EXCEPT !.tiers[1].items[2].tmin = 0]

Saved(t, long) ==
    IF long THEN TextGrid_to_long_textgrid_string(t) ELSE TextGrid_to_short_textgrid_string(t)

\* lines with every tier class word replaced by another word
UnknownClass(lines) ==
    [i \in 1 .. Len(lines) |-> ReplaceClass(lines, i)[i]]

\* lines without its last line
Truncated(lines) == DeleteLine(lines, Len(lines))

SampleFiles ==
    { File(FALSE, FileStem, <<>>) }
    \cup UNION { { File(TRUE, FileStem, Saved(SampleTextGrid, long)),
                   File(TRUE, FileStem, Saved(OverlappingTextGrid, long)),
                   File(TRUE, FileStem, UnknownClass(Saved(SampleTextGrid, long))),
                   File(TRUE, FileStem, Truncated(Saved(SampleTextGrid, long))) }
                 : long \in BOOLEAN }

\* (0.0, 0.0, Vec::new()) and the five empty vectors
Placeholder(form) == IF form = "data" THEN <<0, 0, <<>>>> ELSE NoVectors

\* The match of map_fun on what read_from_file returned: the slot, or the
\* panic that read_from_file raised.
match_tgt_result(tgt_result, form) ==
    IF tgt_result.kind = "Ok"
    THEN Ok(IF form = "data" THEN TextGrid_to_data(tgt_result.value)
                             ELSE TextGrid_to_vectors(tgt_result.value))
    ELSE IF tgt_result.kind = "Err" THEN Ok(Placeholder(form))
    ELSE tgt_result

\* map_fun of files_to_data (form "data") and of files_to_vectors (form
\* "vectors") on one file
map_fun(file, is_strict, ftype, form) ==
    match_tgt_result(read_from_file(file, is_strict, ftype), form)

InitBatch ==
    /\ pc = "list"
    /\ files = <<>> /\ out = <<>> /\ pos = 0
    /\ strict = FALSE /\ file_type = "none" /\ opt = "none"
    /\ tg = TextGrid_new /\ text = <<>> /\ state = "Header" /\ ptg = TextGrid_new
    /\ data = <<>> /\ result = NoResult

\* The caller adds a path to the list.
AddFile ==
    /\ pc = "list"
    /\ Len(files) < MaxFiles
    /\ \E f \in SampleFiles : files' = Append(files, f)
    /\ UNCHANGED <<pc, tg, strict, file_type, text, state, ptg, pos, data, opt, out, result>>

\* files_to_data(fnames, strict, file_type) is called
files_to_data ==
    /\ pc = "list"
    /\ strict' \in BOOLEAN
    /\ file_type' \in {"long", "short", "auto"}
    /\ opt' = "data"
    /\ pc' = "map"
    /\ UNCHANGED <<tg, text, state, ptg, pos, data, files, out, result>>

\* files_to_vectors(fnames, strict, file_type) is called
files_to_vectors ==
    /\ pc = "list"
    /\ strict' \in BOOLEAN
    /\ file_type' \in {"long", "short", "auto"}
    /\ opt' = "vectors"
    /\ pc' = "map"
    /\ UNCHANGED <<tg, text, state, ptg, pos, data, files, out, result>>

\* fast_map keeps the slot of a file; a panic unwinds out of the call.
collect(slot) ==
    IF slot.kind = "Ok"
    THEN /\ out' = Append(out, slot.value)
         /\ pos' = pos + 1
         /\ UNCHANGED <<pc, result>>
    ELSE /\ pc' = "panicked"
         /\ result' = slot
         /\ out' = <<>>
         /\ UNCHANGED pos

\* fast_map applies map_fun to the next file.
MapFile ==
    /\ pc = "map"
    /\ pos < Len(files)
    /\ collect(map_fun(files[pos + 1], strict, file_type, opt))
    /\ UNCHANGED <<tg, strict, file_type, text, state, ptg, data, opt, files>>

\* fast_map has collected every slot; the call returns them.
ReturnSlots ==
    /\ pc = "map"
    /\ pos = Len(files)
    /\ pc' = "returned"
    /\ result' = Ok(out)
    /\ UNCHANGED <<tg, strict, file_type, text, state, ptg, pos, data, opt, files, out>>

NextBatch == AddFile \/ files_to_data \/ files_to_vectors \/ MapFile \/ ReturnSlots

SpecBatch == InitBatch /\ [][NextBatch]_vars

(***************************************************************************)
(* parser_short.rs step by step: read_from_file_short on a file saved in   *)
(* the short format, which another program may have damaged by deleting a  *)
(* line, replacing a tier class or changing a number (a count among them). *)
(* pos is the cursor, ptg the TextGrid being filled.                       *)
(***************************************************************************)
\* lines with one number replaced by the next one
Miscounted(lines) ==
    { [lines EXCEPT ![i] = Display(DigitsToNat(trim(lines[i])) + 1)] :
          i \in { k \in 1 .. Len(lines) : IsDigits(trim(lines[k])) } }

InitShort ==
    /\ pc = "saved"
    /\ tg \in ShapedTextGrids
    /\ text = TextGrid_to_short_textgrid_string(tg)
    /\ file_type = "short"
    /\ result = NoResult
    /\ strict = FALSE /\ state = "Header" /\ ptg = TextGrid_new /\ pos = 0
    /\ data = <<>> /\ opt = <<>> /\ files = <<>> /\ out = <<>>

\* Another program changes a number of the saved file.
MiscountFile ==
    /\ pc = "saved"
    /\ text' \in Miscounted(text)
    /\ pc' = "tampered"
    /\ UNCHANGED <<tg, strict, file_type, state, ptg, pos, data, opt, files, out, result>>

\* read_from_file_short(fname, strict) up to `let mut cursor = 7`
OpenShort ==
    /\ pc \in {"saved", "tampered"}
    /\ strict' \in BOOLEAN
    /\ IF ~ InBounds(text, 6)
       THEN /\ pc' = "panicked"
            /\ result' = Panic(MsgIndex)
            /\ UNCHANGED <<ptg, pos>>
       ELSE /\ pc' = "tiers"
            /\ ptg' = short_header(File(TRUE, FileStem, text))
            /\ pos' = 7
            /\ UNCHANGED result
    /\ UNCHANGED <<tg, file_type, text, state, data, opt, files, out>>

\* The body of `for _ in 0..tg.size` on what parse_tier returned.
push_tier(parsed) ==
    IF parsed.kind = "Panic"
    THEN /\ pc' = "panicked"
         /\ result' = Panic(parsed.msg)
         /\ UNCHANGED <<ptg, pos>>
    ELSE /\ ptg' = [ptg EXCEPT !.tiers = Append(@, parsed.tier)]
         /\ pos' = parsed.cursor
         /\ UNCHANGED <<pc, result>>

\* One iteration of `for _ in 0..tg.size`.
ParseTier ==
    /\ pc = "tiers"
    /\ Len(ptg.tiers) < ptg.size
    /\ push_tier(parse_tier(text, pos))
    /\ UNCHANGED <<tg, strict, file_type, text, state, data, opt, files, out>>

\* The loop is over: `if strict { tg.assert_valid()? } Ok(tg)`.
FinishShort ==
    /\ pc = "tiers"
    /\ Len(ptg.tiers) = ptg.size
    /\ result' = finish_read(ptg, strict)
    /\ pc' = "done"
    /\ UNCHANGED <<tg, strict, file_type, text, state, ptg, pos, data, opt, files, out>>

NextShort == TamperFile \/ MiscountFile \/ OpenShort \/ ParseTier \/ FinishShort

SpecShort == InitShort /\ [][NextShort]_vars

(***************************************************************************)
(* parser_long.rs step by step: read_from_file_long on a file saved in the *)
(* long format, which another program may have damaged, or on a file of up *)
(* to MaxLines lines of the long format in any order.  state is the state  *)
(* of the parser, ptg the TextGrid being filled, pos the number of lines   *)
(* read.                                                                   *)
(***************************************************************************)
MaxLines == 3

\* Lines of the long format: the three kinds of structural lines and a
\* key = value line for each context.
LongLines ==
    { <<"item", SPACE, "[", "]", ":", SPACE>>,
      Indent(1) \o <<"item", SPACE, "[">> \o Display(1) \o <<"]", ":">>,
      Indent(2) \o <<"intervals", SPACE, "[">> \o Display(1) \o <<"]", ":">>,
      Indent(2) \o <<"points", SPACE, "[">> \o Display(1) \o <<"]", ":">>,
      KeyValueLine(0, <<"xmin">>, Display(1)),
      KeyValueLine(2, <<"class">>, Quoted(<<ClassWord(TRUE)>>)),
      KeyValueLine(3, <<"text">>, Quoted(<<"a">>)) }

InitLong ==
    /\ pc \in {"lines", "saved"}
    /\ tg \in IF pc = "saved" THEN ShapedTextGrids ELSE {ShapedTextGrid(0, 0, TRUE)}
    /\ text = IF pc = "saved" THEN TextGrid_to_long_textgrid_string(tg) ELSE <<>>
    /\ file_type = "long"
    /\ result = NoResult
    /\ strict = FALSE /\ state = "Header" /\ ptg = TextGrid_new /\ pos = 0
    /\ data = <<>> /\ opt = <<>> /\ files = <<>> /\ out = <<>>

\* Another program writes one more line of the file.
WriteLine ==
    /\ pc = "lines"
    /\ Len(text) < MaxLines
    /\ \E line \in LongLines : text' = Append(text, line)
    /\ UNCHANGED <<pc, tg, strict, file_type, state, ptg, pos, data, opt, files, out, result>>

\* read_from_file_long(fname, strict) up to `let mut state = State::Header`
OpenLong ==
    /\ pc \in {"lines", "saved", "tampered"}
    /\ strict' \in BOOLEAN
    /\ ptg' = [TextGrid_new EXCEPT !.name = FileStem]
    /\ state' = "Header"
    /\ pos' = 0
    /\ pc' = "loop"
    /\ UNCHANGED <<tg, file_type, text, data, opt, files, out, result>>

\* The end of one iteration of the loop over the lines, stepped being what
\* the iteration made of the state and the TextGrid.
step_line(stepped) ==
    /\ state' = stepped.state
    /\ ptg' = stepped.tg
    /\ IF stepped.kind = "Panic"
       THEN /\ pc' = "panicked"
            /\ result' = Panic(stepped.msg)
            /\ UNCHANGED pos
       ELSE /\ pos' = pos + 1
            /\ UNCHANGED <<pc, result>>

\* One iteration of `for line in content.lines().map(|l| l.trim())`.
StepLine ==
    /\ pc = "loop"
    /\ pos < Len(text)
    /\ step_line(LongStep(state, ptg, text[pos + 1]))
    /\ UNCHANGED <<tg, strict, file_type, text, data, opt, files, out>>

\* The loop is over: `if strict { tg.assert_valid()? } Ok(tg)`.
FinishLong ==
    /\ pc = "loop"
    /\ pos = Len(text)
    /\ result' = finish_read(ptg, strict)
    /\ pc' = "done"
    /\ UNCHANGED <<tg, strict, file_type, text, state, ptg, pos, data, opt, files, out>>

NextLong == WriteLine \/ TamperFile \/ OpenLong \/ StepLine \/ FinishLong

SpecLong == InitLong /\ [][NextLong]_vars

(***************************************************************************)
(* The invariants of a TextGrid, stated one by one, each with its place in *)
(* the order TextGrid, then tier by tier, then item by item.               *)
(***************************************************************************)
MsgNonNegative == "Time bounds should be non-negative"

MsgLess == "tmin should be less than tmax"

MsgTgSize == "TextGrid size does not match number of tiers"

MsgTierSize == "Tier size does not match number of items"

MsgPoint == "Item should have tmin == tmax in PointTier"

MsgOverlap == "Items overlap"

TimeBoundsMsgs == {MsgNonNegative, MsgLess}

Violation(rank, msg, where) == [rank |-> rank, msg |-> msg, where |-> where]

LexLess(a, b) ==
    \E k \in 1..Len(a) : a[k] < b[k] /\ \A m \in 1..(k - 1) : a[m] = b[m]

When(cond, v) == IF cond THEN {v} ELSE {}

TextGridViolations(t) ==
    When(t.size # Len(t.tiers), Violation(<<0, 0, 0, 0, 0>>, MsgTgSize, NoWhere))
    \cup When(t.tmin < 0 \/ t.tmax <= 0,
              Violation(<<1, 0, 0, 0, 0>>, MsgNonNegative, Where("TextGrid", -1, <<>>)))
    \cup When(t.tmax - t.tmin <= TIME_EPSILON,
              Violation(<<1, 1, 0, 0, 0>>, MsgLess, Where("TextGrid", -1, <<>>)))

TierViolations(t, i) ==
    LET tier == t.tiers[i] IN
    When(tier.size # Len(tier.items), Violation(<<2, i, 0, 0, 0>>, MsgTierSize, NoWhere))
    \cup When(tier.tmin < 0 \/ tier.tmax <= 0,
              Violation(<<2, i, 1, 0, 0>>, MsgNonNegative, Where("tier", -1, tier.name)))
    \cup When(tier.tmax - tier.tmin <= TIME_EPSILON,
              Violation(<<2, i, 1, 1, 0>>, MsgLess, Where("tier", -1, tier.name)))

ItemViolations(t, i, j) ==
    LET tier == t.tiers[i]
        it == tier.items[j]
        w == Where("item", j - 1, tier.name)
    IN
    When(tier.interval_tier /\ (it.tmin < 0 \/ it.tmax <= 0),
         Violation(<<2, i, 2, j, 0>>, MsgNonNegative, w))
    \cup When(tier.interval_tier /\ it.tmax - it.tmin <= TIME_EPSILON,
              Violation(<<2, i, 2, j, 1>>, MsgLess, w))
    \cup When(~ tier.interval_tier
              /\ (it.tmin - it.tmax > TIME_EPSILON \/ it.tmax - it.tmin > TIME_EPSILON),
              Violation(<<2, i, 2, j, 1>>, MsgPoint, w))
    \cup When(j < Len(tier.items) /\ it.tmax - tier.items[j + 1].tmin > TIME_EPSILON,
              Violation(<<2, i, 2, j, 2>>, MsgOverlap, w))

Violations(t) ==
    TextGridViolations(t)
    \cup UNION { TierViolations(t, i)
                 \cup UNION { ItemViolations(t, i, j) : j \in 1..Len(t.tiers[i].items) }
                 : i \in 1..Len(t.tiers) }

First(V) == CHOOSE v \in V : \A w \in V : w = v \/ LexLess(v.rank, w.rank)

FirstViolation(t) == First(Violations(t))

Valid(t) == Violations(t) = {}

\* The violations V are all at item j of tier i, and all carry one of these messages.
OnlyAtItem(V, i, j, msgs) ==
    \A v \in V : v.rank[2] = i /\ v.rank[3] = 2 /\ v.rank[4] = j /\ v.msg \in msgs

(***************************************************************************)
(* C7 (as stated): the "words" TextGrid passes validation with the second  *)
(* item at (1.0, 2.0), still passes with it at (0.99, 2.0), and fails with *)
(* the overlap error with it at (0.9, 2.0).                                *)
(***************************************************************************)
C7_AsStated ==
    pc = "validated" =>
        /\ tg = WordsExact => result.kind = "Ok"
        /\ tg = WordsShifted099 => result.kind = "Ok"
        /\ tg = WordsShifted09 => result.kind = "Err" /\ result.msg = MsgOverlap

(***************************************************************************)
(* C7 (amended): the "words" TextGrid passes validation with the second    *)
(* item at (1.0, 2.0); with it at (0.99, 2.0) the overlap is 0.01 s, more  *)
(* than TIME_EPSILON, and validation fails with the overlap error, as it   *)
(* does with it at (0.9, 2.0).                                             *)
(***************************************************************************)
C7_WordsScenario ==
    pc = "validated" =>
        /\ tg = WordsExact => result.kind = "Ok"
        /\ tg = WordsShifted099 =>
              /\ result.kind = "Err" /\ result.msg = MsgOverlap
              /\ result.where = Where("item", 0, <<"w", "o", "r", "d", "s">>)
        /\ tg = WordsShifted09 =>
              /\ result.kind = "Err" /\ result.msg = MsgOverlap
              /\ result.where = Where("item", 0, <<"w", "o", "r", "d", "s">>)

C7_Witness ==
    pc = "validated" /\ tg = WordsShifted099 /\ result.kind = "Err" /\ result.msg = MsgOverlap

(***************************************************************************)
(* C8: validation fails (a) with a time-bounds error when an interval item *)
(* has tmax <= tmin, (b) with the overlap error when two consecutive       *)
(* interval items overlap by more than TIME_EPSILON, (c) with the          *)
(* size-mismatch error when a tier's declared size is not its item count,  *)
(* in each case on an otherwise valid TextGrid; and in general it returns  *)
(* the first violation in the order TextGrid, tiers in order, items in     *)
(* order, and Ok exactly when there is none.                               *)
(***************************************************************************)
C8_InvariantRejection ==
    pc = "validated" =>
      LET V == Violations(tg) IN
        /\ \A i \in 1..Len(tg.tiers) : \A j \in 1..Len(tg.tiers[i].items) :
              LET tier == tg.tiers[i]
                  w == Where("item", j - 1, tier.name)
              IN /\ ( /\ tier.interval_tier
                      /\ tier.items[j].tmax <= tier.items[j].tmin
                      /\ OnlyAtItem(V, i, j, TimeBoundsMsgs) )
                    => result.kind = "Err" /\ result.msg \in TimeBoundsMsgs
                       /\ result.where = w
                 /\ ( /\ tier.interval_tier
                      /\ j < Len(tier.items)
                      /\ tier.items[j].tmax - tier.items[j + 1].tmin > TIME_EPSILON
                      /\ OnlyAtItem(V, i, j, {MsgOverlap}) )
                    => result.kind = "Err" /\ result.msg = MsgOverlap /\ result.where = w
        /\ \A i \in 1..Len(tg.tiers) :
              ( /\ tg.tiers[i].size # Len(tg.tiers[i].items)
                /\ \A v \in V : v.msg = MsgTierSize /\ v.rank[2] = i )
              => result.kind = "Err" /\ result.msg = MsgTierSize
        /\ IF V = {}
           THEN result.kind = "Ok"
           ELSE /\ result.kind = "Err"
                /\ result.msg = First(V).msg
                /\ result.where = First(V).where

\* Two tiers are invalid and the error returned is the first tier's overlap.
C8_Witness ==
    /\ pc = "validated"
    /\ result.kind = "Err" /\ result.msg = MsgOverlap
    /\ \E v \in Violations(tg) : v.rank[2] = 1 /\ v.msg = MsgOverlap
    /\ \E v \in Violations(tg) : v.rank[2] = 2 /\ v.msg \in TimeBoundsMsgs

(***************************************************************************)
(* Structural equality of TextGrids, the TextGrid's own name left out (a   *)
(* parsed TextGrid is named after its file).  Item times are compared      *)
(* within TIME_EPSILON: a point item is written as its tmin alone.         *)
(***************************************************************************)
Near(x, y) == x - y <= TIME_EPSILON /\ y - x <= TIME_EPSILON

SameItems(xs, ys) ==
    /\ Len(xs) = Len(ys)
    /\ \A j \in 1..Len(xs) :
          /\ Near(xs[j].tmin, ys[j].tmin)
          /\ Near(xs[j].tmax, ys[j].tmax)
          /\ xs[j].label = ys[j].label

SameTier(x, y) ==
    /\ x.name = y.name
    /\ x.interval_tier = y.interval_tier
    /\ x.tmin = y.tmin /\ x.tmax = y.tmax
    /\ x.size = y.size
    /\ SameItems(x.items, y.items)

SameTiers(xs, ys) ==
    /\ Len(xs) = Len(ys)
    /\ \A i \in 1..Len(xs) : SameTier(xs[i], ys[i])

SameTextGrid(x, y) ==
    /\ x.tmin = y.tmin /\ x.tmax = y.tmax
    /\ x.size = y.size
    /\ SameTiers(x.tiers, y.tiers)

HasQuote(str) == \E k \in 1..Len(str) : str[k] = QUOTE

\* Some tier name or item label of t contains a double quote.
QuoteInside(t) ==
    \E i \in 1..Len(t.tiers) :
        \/ HasQuote(t.tiers[i].name)
        \/ \E j \in 1..Len(t.tiers[i].items) : HasQuote(t.tiers[i].items[j].label)

\* The declared sizes of t are its actual counts.
SizesMatch(t) ==
    /\ t.size = Len(t.tiers)
    /\ \A i \in 1..Len(t.tiers) : t.tiers[i].size = Len(t.tiers[i].items)

\* Every item of a point tier of t has tmin = tmax.
PointsExact(t) ==
    \A i \in 1..Len(t.tiers) :
        t.tiers[i].interval_tier
        \/ \A j \in 1..Len(t.tiers[i].items) :
               t.tiers[i].items[j].tmin = t.tiers[i].items[j].tmax

(***************************************************************************)
(* C1: parsing the long text written for a valid TextGrid T gives a        *)
(* TextGrid with T's tmin, tmax and size, T's tiers in order (name, kind,  *)
(* bounds, size) and their items in order (tmin, tmax, label), whatever    *)
(* the names and labels, quotes included.                                  *)
(***************************************************************************)
C1_LongRoundTrip ==
    (pc = "read" /\ file_type = "long" /\ Valid(tg)) =>
        result.kind = "Ok" /\ SameTextGrid(result.value, tg)

(***************************************************************************)
(* C2: parsing the short text written for a valid TextGrid T gives T's     *)
(* bounds, T's tiers in order and in each tier T's items and labels,       *)
(* whatever the names and labels, quotes included.                         *)
(***************************************************************************)
C2_ShortRoundTrip ==
    (pc = "read" /\ file_type = "short" /\ Valid(tg)) =>
        result.kind = "Ok" /\ SameTextGrid(result.value, tg)

(***************************************************************************)
(* C10: with strict = true a read returns a TextGrid only if it passes the *)
(* full validation, and returns the validation's first error otherwise;    *)
(* with strict = false no validation error is ever returned, and what was  *)
(* parsed is returned as it is, invalid or not: the file written for a     *)
(* TextGrid that the format can carry (no quotes in it, its declared sizes *)
(* the actual counts, its point items with tmin = tmax) reads back as that *)
(* TextGrid even when the TextGrid breaks the invariants.  Both parsers.   *)
(***************************************************************************)
C10_StrictFlag ==
    pc \in {"read", "read tampered"} =>
      LET parsed == read_from_file(File(TRUE, FileStem, text), FALSE, file_type) IN
        /\ strict =>
              /\ result.kind = "Ok" => Valid(result.value)
              /\ parsed.kind = "Panic" => result.kind = "Panic"
              /\ parsed.kind = "Ok" =>
                    IF Valid(parsed.value)
                    THEN result.kind = "Ok" /\ result.value = parsed.value
                    ELSE /\ result.kind = "Err"
                         /\ result.msg = FirstViolation(parsed.value).msg
                         /\ result.where = FirstViolation(parsed.value).where
        /\ ~ strict =>
              /\ result.kind # "Err"
              /\ (pc = "read" /\ ~ QuoteInside(tg) /\ SizesMatch(tg) /\ PointsExact(tg)) =>
                    result.kind = "Ok" /\ SameTextGrid(result.value, tg)

\* A file with overlapping intervals, read without strict, is returned.
C10_Witness ==
    /\ pc = "read" /\ ~ strict /\ file_type = "short"
    /\ result.kind = "Ok"
    /\ \E v \in Violations(result.value) : v.msg = MsgOverlap

(***************************************************************************)
(* The nested and the flat form.                                           *)
(***************************************************************************)
HasItems(tier) == Len(tier.items) > 0

Least(S) == CHOOSE x \in S : \A y \in S : x <= y

Greatest(S) == CHOOSE x \in S : \A y \in S : x >= y

ItemTmins(tier) == { tier.items[j].tmin : j \in 1 .. Len(tier.items) }

ItemTmaxs(tier) == { tier.items[j].tmax : j \in 1 .. Len(tier.items) }

\* C3 as stated: from_data applied to what to_data returned for a valid
\* TextGrid succeeds, and its tiers are the tiers of the TextGrid that have
\* items, in order, each with the same name, kind, tmin, tmax, size and items.
C3_AsStated ==
    (pc = "from_data" /\ Valid(tg)) =>
        /\ result.kind = "Ok"
        /\ result.value.tiers = SelectSeq(tg.tiers, HasItems)

\* C3 as amended: with the tmin and tmax that to_data returned passed as
\* overrides from_data succeeds; whenever it succeeds its tiers are the tiers
\* of the TextGrid that have items, in order, each with the same name, kind,
\* size and items, while the tmin (tmax) of every tier is the override, or
\* without one the least tmin (greatest tmax) of the tier's items, and not
\* the tmin (tmax) the tier had.
C3_NestedRoundTrip ==
    (pc = "from_data" /\ Valid(tg)) =>
        /\ (opt.tmin.some /\ opt.tmax.some) => result.kind = "Ok"
        /\ result.kind = "Ok" =>
             LET kept == SelectSeq(tg.tiers, HasItems)
                 got == result.value.tiers
             IN /\ Len(got) = Len(kept)
                /\ result.value.size = Len(kept)
                /\ \A k \in 1 .. Len(kept) :
                      /\ got[k].name = kept[k].name
                      /\ got[k].interval_tier = kept[k].interval_tier
                      /\ got[k].size = kept[k].size
                      /\ got[k].items = kept[k].items
                      /\ got[k].tmin = IF opt.tmin.some THEN tg.tmin
                                       ELSE Least(ItemTmins(kept[k]))
                      /\ got[k].tmax = IF opt.tmax.some THEN tg.tmax
                                       ELSE Greatest(ItemTmaxs(kept[k]))

\* A valid TextGrid with an empty tier and a tier whose bounds are not the
\* TextGrid's has been rebuilt with both overrides.
C3_Witness ==
    /\ pc = "from_data" /\ Valid(tg)
    /\ opt.tmin.some /\ opt.tmax.some
    /\ result.kind = "Ok"
    /\ \E i \in 1 .. Len(tg.tiers) : ~ HasItems(tg.tiers[i])
    /\ \E i \in 1 .. Len(tg.tiers) : HasItems(tg.tiers[i]) /\ tg.tiers[i].tmin # tg.tmin

\* C4 as stated: from_vectors applied to what to_vectors returned for a valid
\* TextGrid succeeds and yields as many tiers, in the same order, each with
\* the same name, kind and items.
C4_AsStated ==
    (pc = "from_vectors" /\ Valid(tg)) =>
        /\ result.kind = "Ok"
        /\ Len(result.value.tiers) = Len(tg.tiers)
        /\ \A k \in 1 .. Len(tg.tiers) :
              /\ result.value.tiers[k].name = tg.tiers[k].name
              /\ result.value.tiers[k].interval_tier = tg.tiers[k].interval_tier
              /\ result.value.tiers[k].items = tg.tiers[k].items

Entry(v, i) == Item(v.tmins[i], v.tmaxs[i], v.labels[i])

\* The positions of the vectors at which a tier name occurs for the first time.
FirstOccurrences(v) ==
    { i \in 1 .. Len(v.tier_names) : \A k \in 1 .. i - 1 : v.tier_names[k] # v.tier_names[i] }

\* The k-th smallest member of a set of numbers.
Nth(S, k) == CHOOSE i \in S : Cardinality({ j \in S : j < i }) = k - 1

Occurrences(seq, x) == Cardinality({ j \in 1 .. Len(seq) : seq[j] = x })

\* C5: when from_vectors succeeds on vectors of equal lengths, the tiers are
\* in the order in which their names first occur, every tier holds exactly
\* the entries that carry its name, each as often as the vectors do, and the
\* items of every tier are in ascending order of tmin.
C5_FlatReconstruction ==
    (pc = "from_entries" /\ result.kind = "Ok") =>
        LET first == FirstOccurrences(data)
            got == result.value.tiers
        IN /\ Len(got) = Cardinality(first)
           /\ \A k \in 1 .. Len(got) :
                 LET n == data.tier_names[Nth(first, k)]
                     mine == { i \in 1 .. Len(data.tier_names) : data.tier_names[i] = n }
                 IN /\ got[k].name = n
                    /\ Len(got[k].items) = Cardinality(mine)
                    /\ \A i \in mine :
                          Occurrences(got[k].items, Entry(data, i))
                            = Cardinality({ i2 \in mine : Entry(data, i2) = Entry(data, i) })
                    /\ \A j \in 1 .. Len(got[k].items) - 1 :
                          got[k].items[j].tmin <= got[k].items[j + 1].tmin

\* from_vectors has succeeded on entries of two tiers that alternate, the
\* last entry of the first tier being earlier than its first.
C5_Witness ==
    /\ pc = "from_entries" /\ result.kind = "Ok"
    /\ \E i, j, k \in 1 .. Len(data.tier_names) :
          /\ i < j /\ j < k
          /\ data.tier_names[i] = data.tier_names[k]
          /\ data.tier_names[i] # data.tier_names[j]
          /\ data.tmins[k] < data.tmins[i]

Within(a, b) == a - b <= TIME_EPSILON

\* The bounds of t nest, to the tolerance of the validator.
Nests(t) ==
    \A i \in 1 .. Len(t.tiers) :
        /\ Within(t.tmin, t.tiers[i].tmin)
        /\ Within(t.tiers[i].tmax, t.tmax)
        /\ \A j \in 1 .. Len(t.tiers[i].items) :
              /\ Within(t.tiers[i].tmin, t.tiers[i].items[j].tmin)
              /\ Within(t.tiers[i].items[j].tmax, t.tiers[i].tmax)

\* C6 as stated: in every TextGrid that from_data returns, the bounds of the
\* TextGrid hold the bounds of every tier, and the bounds of every tier hold
\* the bounds of each of its items.
C6_AsStated ==
    (pc = "from_data" /\ result.kind = "Ok") => Nests(result.value)

(***************************************************************************)
(* Many files.                                                             *)
(***************************************************************************)
\* C9 as stated: a call of files_to_data or files_to_vectors always returns,
\* with one slot per file in the order of the files; the slot of a file that
\* read_from_file fails on (it cannot be read, it has an unknown tier class,
\* its lines end before its counts do, or strict validation rejects it) is
\* the empty placeholder, and the slot of any other file is the conversion
\* of what read_from_file returns for that file alone.
C9_AsStated ==
    pc \in {"returned", "panicked"} =>
        /\ pc = "returned"
        /\ Len(out) = Len(files)
        /\ \A i \in 1 .. Len(files) :
              LET alone == read_from_file(files[i], strict, file_type) IN
                out[i] = IF alone.kind # "Ok" THEN Placeholder(opt)
                         ELSE IF opt = "data" THEN TextGrid_to_data(alone.value)
                         ELSE TextGrid_to_vectors(alone.value)

(***************************************************************************)
(* Vectors of unequal lengths.                                             *)
(***************************************************************************)
SameLengths(v) ==
    /\ Len(v.tmins) = Len(v.tmaxs)
    /\ Len(v.tmins) = Len(v.labels)
    /\ Len(v.tmins) = Len(v.tier_names)
    /\ Len(v.tmins) = Len(v.is_intervals)

\* C11: from_vectors on five vectors that do not all have one length returns
\* the error "Input vectors must have the same length" and no TextGrid; on
\* five vectors of one length it never returns that error.
C11_UnequalLengths ==
    pc = "from_entries" =>
        /\ ~ SameLengths(data) =>
              /\ result.kind = "Err" /\ result.msg = MsgSameLength
              /\ result.value = <<>>
        /\ SameLengths(data) => ~ (result.kind = "Err" /\ result.msg = MsgSameLength)

\* from_vectors has been called on vectors of which only is_intervals is
\* shorter than the others, which hold two entries.
C11_Witness ==
    /\ pc = "from_entries"
    /\ Len(data.tmins) = 2 /\ Len(data.tmaxs) = 2 /\ Len(data.labels) = 2
    /\ Len(data.tier_names) = 2 /\ Len(data.is_intervals) = 1
    /\ result.kind = "Err"

(***************************************************************************)
(* The cursor of the short parser.                                         *)
(***************************************************************************)
\* The lines a tier with n items takes.
Span(is_interval, n) == 5 + (IF is_interval THEN 3 ELSE 2) * n

\* The line at which tier k of tiers starts when the first starts at line 7.
RECURSIVE TierStart(_, _)
TierStart(tiers, k) ==
    IF k = 1 THEN 7
    ELSE TierStart(tiers, k - 1)
           + Span(tiers[k - 1].interval_tier, Len(tiers[k - 1].items))

\* Line k of the file, trimmed, lines being counted from 0.
LineAt(k) == trim(text[k + 1])

ClassAt(k) == trim_matches(LineAt(k), QUOTE)

\* The tier that starts at line k cannot be read: there is no such line, its
\* class is unknown, or its five lines and the lines of as many items as it
\* declares do not all exist.
CannotRead(k) ==
    \/ k >= Len(text)
    \/ ClassAt(k) \notin {<<"IntervalTier">>, <<"TextTier">>}
    \/ k + 4 >= Len(text)
    \/ k + Span(ClassAt(k) = <<"IntervalTier">>, parse_uint(LineAt(k + 4))) > Len(text)

\* C12: the first tier is read from line 7 on; every tier read so far starts
\* where the one before it ended, its class, name, tmin, tmax and count are
\* those of its first five lines, it has exactly as many items as it
\* declares, each item read from the 3 (interval tier) or 2 (point tier)
\* lines of its place, and the cursor is at the end of the last tier, within
\* the file; no more tiers are read than the header declares; and the parser
\* panics exactly where a tier cannot be read.
C12_CursorDiscipline ==
    /\ pc \in {"tiers", "done"} =>
          /\ Len(ptg.tiers) <= ptg.size
          /\ ptg.size = parse_uint(LineAt(6))
          /\ pos = TierStart(ptg.tiers, Len(ptg.tiers) + 1)
          /\ pos <= Len(text)
          /\ \A k \in 1 .. Len(ptg.tiers) :
                LET start == TierStart(ptg.tiers, k)
                    tier == ptg.tiers[k]
                    width == IF tier.interval_tier THEN 3 ELSE 2
                IN /\ tier.interval_tier = (ClassAt(start) = <<"IntervalTier">>)
                   /\ ~ tier.interval_tier => ClassAt(start) = <<"TextTier">>
                   /\ tier.name = parse_str(LineAt(start + 1))
                   /\ tier.tmin = parse_float(LineAt(start + 2))
                   /\ tier.tmax = parse_float(LineAt(start + 3))
                   /\ tier.size = parse_uint(LineAt(start + 4))
                   /\ Len(tier.items) = tier.size
                   /\ \A j \in 1 .. Len(tier.items) :
                         LET at == start + 5 + width * (j - 1) IN
                           /\ tier.items[j].tmin = parse_float(LineAt(at))
                           /\ tier.items[j].tmax =
                                 parse_float(LineAt(IF tier.interval_tier THEN at + 1 ELSE at))
                           /\ tier.items[j].label = parse_str(LineAt(at + width - 1))
    /\ pc = "done" => Len(ptg.tiers) = ptg.size
    /\ pc = "panicked" =>
          /\ result.kind = "Panic"
          /\ IF pos = 0 THEN Len(text) <= 6
             ELSE /\ pos = TierStart(ptg.tiers, Len(ptg.tiers) + 1)
                  /\ Len(ptg.tiers) < ptg.size
                  /\ CannotRead(pos)

\* A file whose first tier declares one item more than it has was read: the
\* items of the first tier took lines of the second, and the second tier
\* could not be read.
C12_Witness ==
    /\ pc = "panicked"
    /\ Len(ptg.tiers) = 1
    /\ Len(ptg.tiers[1].items) = Len(tg.tiers[1].items) + 1
    /\ Len(tg.tiers) = 2

(***************************************************************************)
(* The states of the long parser.                                          *)
(***************************************************************************)
\* C13 as stated: on every file, the parser is in state Tier only when the
\* TextGrid has a tier and in state Item only when the last tier has an
\* item, and it never reaches for the last tier (to add an item to it or to
\* set one of its fields) while there is none.
C13_AsStated ==
    /\ state = "Tier" => Len(ptg.tiers) >= 1
    /\ state = "Item" => (Len(ptg.tiers) >= 1 /\ Len(Last(ptg.tiers).items) >= 1)
    /\ ~ (pc = "panicked" /\ result.msg = MsgNone)

=============================================================================
